---------------------------- MODULE Spec2Model ----------------------------
(***************************************************************************)
(* A model of the astro-proxy repository:                                  *)
(*   - the angle helpers norm360 / degToSignObject / zodiacName of the     *)
(*     chart module (src/unnamed/part_000), on JavaScript Numbers;         *)
(*   - computeChart of the same module, as two calls that interleave at    *)
(*     their await points and share the ephemeris library's sidereal mode; *)
(*   - the Netlify proxy handler (src/astro-proxy/netlify/functions/       *)
(*     astro.js), one invocation from the event to the returned response.  *)
(*                                                                         *)
(* JavaScript Numbers are binary floating point.  A finite Number is       *)
(* modelled as an integer count v of fine units (Unit = 2^FracBits units   *)
(* per 1.0) that has at most MantBits significant bits; every arithmetic   *)
(* operation is the exact result rounded to MantBits bits, ties to even,   *)
(* as IEEE-754 prescribes (a double has 53 bits; the model scales the      *)
(* mantissa down and takes its inputs from the 2^-FracBits grid).  NaN and *)
(* the infinities are separate values.  Signed zero is not distinguished:  *)
(* -0 compares, floors and serialises as 0 everywhere in this code.        *)
(***************************************************************************)
EXTENDS Integers, Sequences, FiniteSets

\* ------------------------------------------------------------------ bounds
\* Fraction bits of the grid the inputs are drawn from.
FracBits == 18
\* Significant bits of the modelled floating point format.
MantBits == 24
\* Inputs range over base angles shifted by -MaxTurns..MaxTurns full turns.
MaxTurns == 1
\* Inputs within MaxJitter fine units below and above each sampled angle.
MaxJitter == 9
\* Arc minutes m = 1..MaxMinute whose lower neighbourhood is sampled.
MaxMinute == 3

Unit == 2 ^ FracBits

\* ------------------------------------------------------- JavaScript Numbers
Fin(v) == [k |-> "fin", v |-> v]
NaN    == [k |-> "nan", v |-> 0]
PosInf == [k |-> "inf", v |-> 1]
NegInf == [k |-> "inf", v |-> -1]
None   == [k |-> "none", v |-> 0]

IsFinite(n) == n.k = "fin"

Abs(i) == IF i < 0 THEN -i ELSE i

\* Number of significant bits of a natural number below 2^30.
BitLen(a) == CHOOSE e \in 0..30 : a < 2 ^ e /\ (e = 0 \/ a >= 2 ^ (e - 1))

\* Round-to-nearest, ties-to-even, to MantBits significant bits.
RoundFloat(v) ==
    LET a == Abs(v)
        e == BitLen(a)
    IN  IF e <= MantBits THEN v
        ELSE LET ulp == 2 ^ (e - MantBits)
                 q   == a \div ulp
                 r   == a % ulp
                 up  == IF 2 * r > ulp \/ (2 * r = ulp /\ q % 2 = 1) THEN 1 ELSE 0
                 res == (q + up) * ulp
             IN  IF v < 0 THEN -res ELSE res

\* x % m for a positive finite constant m (whole units): the remainder takes
\* the sign of the dividend and is exact; NaN and the infinities give NaN.
JsRem(x, m) ==
    IF ~IsFinite(x) THEN NaN
    ELSE IF x.v >= 0 THEN Fin(x.v % (m * Unit))
         ELSE Fin(-((-x.v) % (m * Unit)))

\* a < 0: false for NaN.
JsLtZero(a) == IsFinite(a) /\ a.v < 0

\* a + c for a finite constant c (whole units); a is finite or NaN here.
JsAdd(a, c) == IF ~IsFinite(a) THEN NaN ELSE Fin(RoundFloat(a.v + c * Unit))

\* a - b; b is finite whenever a is.
JsSub(a, b) == IF ~IsFinite(a) \/ ~IsFinite(b) THEN NaN ELSE Fin(RoundFloat(a.v - b.v))

\* a * c for a finite constant c.
JsMul(a, c) == IF ~IsFinite(a) THEN NaN ELSE Fin(RoundFloat(a.v * c))

\* Math.floor(a)
JsFloor(a) == IF ~IsFinite(a) THEN NaN ELSE Fin((a.v \div Unit) * Unit)

\* Math.floor(a / c) for a finite constant c.  The quotient a / c is rounded
\* before the floor is taken; for c = 30 and a >= 0 the rounded quotient never
\* reaches the next integer (a <= 30k - ulp(a) and ulp(a) / 30 > ulp(k) / 2),
\* so the floor is that of the exact quotient.
JsFloorDiv(a, c) == IF ~IsFinite(a) THEN NaN ELSE Fin((a.v \div (c * Unit)) * Unit)

\* Number(s.toFixed(2)): s rounded to the nearest hundredth, halves away from
\* zero; the result is carried in hundredths (v = 6000 is 60.00).
ToFixed2(s) ==
    IF ~IsFinite(s) THEN NaN
    ELSE LET a     == Abs(s.v)
             whole == a \div Unit
             frac  == a % Unit
             centi == whole * 100 + (frac * 200 + Unit) \div (2 * Unit)
         IN  Fin(IF s.v < 0 THEN -centi ELSE centi)

\* --------------------------------------------------------- angle helpers
names == <<"Aries", "Taurus", "Gemini", "Cancer", "Leo", "Virgo", "Libra",
           "Scorpio", "Sagittarius", "Capricorn", "Aquarius", "Pisces">>

\* names[idx - 1] || null
zodiacName(idx) ==
    IF IsFinite(idx) /\ idx.v % Unit = 0 /\ idx.v \div Unit \in 1..Len(names)
    THEN names[idx.v \div Unit]
    ELSE "null"

\* Variant of norm360 without the shift of a negative remainder.
norm360_Truncated(angle) == JsRem(angle, 360)

norm360(angle) ==
    LET a == JsRem(angle, 360)
    IN  IF JsLtZero(a) THEN JsAdd(a, 360) ELSE a

\* Variant of degToSignObject that splits the whole longitude, not its
\* remainder within the sign, into degrees, minutes and seconds.
degToSignObject_NoSignRem(deg) ==
    LET normalized == norm360(deg)
        signIndex  == JsAdd(JsFloorDiv(normalized, 30), 1)
        signDeg    == normalized
        d          == JsFloor(signDeg)
        m          == JsFloor(JsMul(JsSub(signDeg, d), 60))
        s          == JsMul(JsSub(JsMul(JsSub(signDeg, d), 60), m), 60)
    IN  [longitude |-> normalized,
         sign      |-> signIndex,
         signName  |-> zodiacName(signIndex),
         deg       |-> d,
         min       |-> m,
         sec       |-> ToFixed2(s)]

\* Variant of degToSignObject whose seconds are left in minutes (the last
\* multiplication by 60 is missing).
degToSignObject_SecInMinutes(deg) ==
    LET normalized == norm360(deg)
        signIndex  == JsAdd(JsFloorDiv(normalized, 30), 1)
        signDeg    == JsRem(normalized, 30)
        d          == JsFloor(signDeg)
        m          == JsFloor(JsMul(JsSub(signDeg, d), 60))
        s          == JsSub(JsMul(JsSub(signDeg, d), 60), m)
    IN  [longitude |-> normalized,
         sign      |-> signIndex,
         signName  |-> zodiacName(signIndex),
         deg       |-> d,
         min       |-> m,
         sec       |-> ToFixed2(s)]

degToSignObject(deg) ==
    LET normalized == norm360(deg)
        signIndex  == JsAdd(JsFloorDiv(normalized, 30), 1)
        signDeg    == JsRem(normalized, 30)
        d          == JsFloor(signDeg)
        m          == JsFloor(JsMul(JsSub(signDeg, d), 60))
        s          == JsMul(JsSub(JsMul(JsSub(signDeg, d), 60), m), 60)
    IN  [longitude |-> normalized,
         sign      |-> signIndex,
         signName  |-> zodiacName(signIndex),
         deg       |-> d,
         min       |-> m,
         sec       |-> ToFixed2(s)]

NoObject == [longitude |-> None, sign |-> None, signName |-> "none",
             deg |-> None, min |-> None, sec |-> None]

\* ----------------------------------------------------------------- inputs
IsFloat(v) == Abs(v) < 2 ^ 30 /\ RoundFloat(v) = v

\* Angles in [0, 360]: every fifth degree (the sign boundaries among them), the largest
\* grid point not above each of the first arc minutes, and the neighbours of
\* each of these within MaxJitter fine units.
BaseAngles ==
    LET anchors == {5 * i * Unit : i \in 0..72}
                   \cup {(m * Unit) \div 60 : m \in 1..MaxMinute}
                   \cup {25 * Unit + (m * Unit) \div 60 : m \in 1..MaxMinute}
    IN  {a + j : a \in anchors, j \in -MaxJitter..MaxJitter}

FiniteInputs ==
    {v \in {b + 360 * Unit * t : b \in BaseAngles, t \in -MaxTurns..MaxTurns} :
        IsFloat(v)}

Inputs == {Fin(v) : v \in FiniteInputs} \cup {NaN, PosInf, NegInf}

\* y = x + 360 * t exactly, for some whole number of turns t.
TurnsApart(x, y) ==
    IF IsFinite(x) /\ IsFinite(y)
    THEN \E t \in -2 * MaxTurns..2 * MaxTurns : y.v = x.v + 360 * Unit * t
    ELSE x = y

VARIABLES
    \* the angle helpers: two inputs a whole number of turns apart, and what
    \* norm360 and degToSignObject returned for each
    degX, degY, normX, normY, objX, objY,
    \* computeChart: the ephemeris library's process-wide sidereal mode, the
    \* bodies whose ephemeris call fails, and per call its options, its
    \* position, the planets object it has built, the mode in effect at each
    \* of its ephemeris requests, its housesObj and the chart it returned
    sidMode, failing, opts, pc, idx, planets, reqMode, housesObj, chart,
    \* the proxy handler: the event and the FREE_ASTRO_API_KEY setting it runs
    \* with, its position, the outbound requests issued so far, what the
    \* geocoder's body parsed to, whether the provider answered OK, and the
    \* responses returned
    event, apiKey, hpc, trace, geoJson, providerOk, responses

angleVars == <<degX, degY, normX, normY, objX, objY>>
chartVars == <<sidMode, failing, opts, pc, idx, planets, reqMode, housesObj, chart>>
proxyVars == <<event, apiKey, hpc, trace, geoJson, providerOk, responses>>
vars == <<angleVars, chartVars, proxyVars>>

\* ------------------------------------------------------------ computeChart
Calls == {1, 2}

planetKeys == <<"sun", "moon", "mercury", "venus", "mars", "jupiter", "saturn",
                "uranus", "neptune", "pluto">>

\* What the chart asks the ephemeris for: the ten planets, the node (one call
\* for rahu and ketu) and the houses.
Bodies == {planetKeys[i] : i \in 1..Len(planetKeys)} \cup {"node", "houses"}

\* Keys of the planets object.
PlanetNames == {planetKeys[i] : i \in 1..Len(planetKeys)} \cup {"rahu", "ketu"}

\* The bodies whose ephemeris call may fail: the first and the last planet,
\* the node and the houses; any subset of them fails in a run.
FailureSamples == {"sun", "pluto", "node", "houses"}

\* The longitude res[0] a successful swe_calc_ut reports for a body: a value
\* in [0, 360) that depends on the body, 0 for the sun.
EphLon(body) ==
    LET i == CHOOSE j \in 0..Len(planetKeys) :
                 IF body = "node" THEN j = 0 ELSE j > 0 /\ planetKeys[j] = body
    IN  IF body = "sun" THEN Fin(0)
        ELSE Fin(RoundFloat(i * 31 * Unit + i * ((Unit \div 60) - 1)))

\* Results a successful swe_houses may resolve with: an ascendant and a first
\* cusp at exactly 0 degrees, all values away from 0, and no values at all.
HouseSamples ==
    { [cusps |-> <<Fin(0), Fin(32 * Unit + 4369), Fin(61 * Unit)>>,
       ascmc |-> <<Fin(0), Fin(270 * Unit)>>],
      [cusps |-> <<Fin(12 * Unit + 77), Fin(40 * Unit), Fin(75 * Unit)>>,
       ascmc |-> <<Fin(12 * Unit + 77), Fin(281 * Unit)>>],
      [cusps |-> << >>, ascmc |-> << >>] }

\* ayanamsa options; "null" is the default (tropical).
Ayanamsas == {"Lahiri", "null"}

\* ayanamsa.toLowerCase()
toLowerCase(str) == IF str = "Lahiri" THEN "lahiri" ELSE str

\* The mode the call's own options select: ayanamsa && toLowerCase() ===
\* 'lahiri' sets SE_SIDM_LAHIRI, anything else ends with swe_set_sid_mode(0).
OwnMode(o) ==
    IF o.ayanamsa # "null" /\ toLowerCase(o.ayanamsa) = "lahiri"
    THEN "SE_SIDM_LAHIRI"
    ELSE "0"

\* JavaScript null where a sign object is expected.
JsNull == [longitude |-> None, sign |-> None, signName |-> "<null>",
           deg |-> None, min |-> None, sec |-> None]

MissingEntry == [kind |-> "missing", speed |-> FALSE, obj |-> NoObject]

\* { error: String(err) }
ErrorEntry == [kind |-> "error", speed |-> FALSE, obj |-> NoObject]

\* { longitude: lon, speed: res[3], ...degToSignObject(lon) } with
\* lon = norm360(res[0])
PlanetEntry(lon0) ==
    [kind |-> "ok", speed |-> TRUE, obj |-> degToSignObject(norm360(lon0))]

\* { longitude: lon, ...degToSignObject(lon) }
NodeEntry(lon) == [kind |-> "ok", speed |-> FALSE, obj |-> degToSignObject(lon)]

\* Truthiness of a Number: 0 and NaN are falsy.
Truthy(n) == n.k = "inf" \/ (n.k = "fin" /\ n.v # 0)

\* (list || []).map(c => (c ? degToSignObject(c) : null))
MapToSignObjects(list) ==
    [i \in 1..Len(list) |-> IF Truthy(list[i]) THEN degToSignObject(list[i]) ELSE JsNull]

\* mapped[i] || null, for a 1-based position i
ElementOrNull(mapped, i) == IF i <= Len(mapped) THEN mapped[i] ELSE JsNull

NoChart == [built |-> FALSE, ascendant |-> JsNull, midheaven |-> JsNull, cusps |-> << >>]

NoHouses == [kind |-> "none", cusps |-> << >>, ascmc |-> << >>]

ChartIdle ==
    /\ sidMode = "default"
    /\ failing = {}
    /\ opts = [c \in Calls |-> [ayanamsa |-> "null", valid |-> FALSE]]
    /\ pc = [c \in Calls |-> "off"]
    /\ idx = [c \in Calls |-> 1]
    /\ planets = [c \in Calls |-> [n \in PlanetNames |-> MissingEntry]]
    /\ reqMode = [c \in Calls |-> [b \in Bodies |-> "none"]]
    /\ housesObj = [c \in Calls |-> NoHouses]
    /\ chart = [c \in Calls |-> NoChart]

\* The fields the proxy handler requires in the request body.
Required == {"year", "month", "date", "hours", "minutes", "place"}

ProxyIdle ==
    /\ event = [httpMethod |-> "GET", body |-> [kind |-> "empty", fields |-> [f \in Required |-> "absent"]]]
    /\ apiKey = FALSE
    /\ hpc = "off"
    /\ trace = << >>
    /\ geoJson = "none"
    /\ providerOk = "none"
    /\ responses = << >>

AngleIdle ==
    /\ degX = NaN
    /\ degY = NaN
    /\ normX = None
    /\ normY = None
    /\ objX = NoObject
    /\ objY = NoObject

InitChart ==
    /\ AngleIdle
    /\ ProxyIdle
    /\ sidMode = "default"
    /\ failing \in SUBSET FailureSamples
    /\ opts \in [Calls -> [ayanamsa : Ayanamsas, valid : BOOLEAN]]
    /\ pc = [c \in Calls |-> "idle"]
    /\ idx = [c \in Calls |-> 1]
    /\ planets = [c \in Calls |-> [n \in PlanetNames |-> MissingEntry]]
    /\ reqMode = [c \in Calls |-> [b \in Bodies |-> "none"]]
    /\ housesObj = [c \in Calls |-> NoHouses]
    /\ chart = [c \in Calls |-> NoChart]

\* computeChart(options) up to its first await: the options are checked (a
\* missing date component or lat/lon throws), the sidereal mode is set, and
\* the first planet is requested.
Begin(c) ==
    /\ pc[c] = "idle"
    /\ IF ~opts[c].valid
       THEN /\ pc' = [pc EXCEPT ![c] = "thrown"]
            /\ UNCHANGED <<sidMode, reqMode>>
       ELSE /\ sidMode' = OwnMode(opts[c])
            /\ reqMode' = [reqMode EXCEPT ![c][planetKeys[1]] = sidMode']
            /\ pc' = [pc EXCEPT ![c] = "planet"]
    /\ UNCHANGED <<failing, opts, idx, planets, housesObj, chart, angleVars, proxyVars>>

\* Variant of PlanetDone without the catch block: a failed calcPlanet ends
\* the call with the error.
PlanetDone_Rethrow(c) ==
    /\ pc[c] = "planet"
    /\ LET key == planetKeys[idx[c]]
       IN  IF key \in failing
           THEN /\ pc' = [pc EXCEPT ![c] = "thrown"]
                /\ UNCHANGED <<idx, planets, reqMode>>
           ELSE /\ planets' = [planets EXCEPT ![c][key] = PlanetEntry(EphLon(key))]
                /\ IF idx[c] < Len(planetKeys)
                   THEN /\ idx' = [idx EXCEPT ![c] = idx[c] + 1]
                        /\ reqMode' = [reqMode EXCEPT ![c][planetKeys[idx[c] + 1]] = sidMode]
                        /\ pc' = pc
                   ELSE /\ idx' = idx
                        /\ reqMode' = [reqMode EXCEPT ![c]["node"] = sidMode]
                        /\ pc' = [pc EXCEPT ![c] = "node"]
    /\ UNCHANGED <<sidMode, failing, opts, housesObj, chart, angleVars, proxyVars>>

\* The awaited calcPlanet of planetKeys[idx] settles: its entry is recorded
\* (the sign object, or the error the catch block stores) and the next planet,
\* or after the last one the node, is requested.
PlanetDone(c) ==
    /\ pc[c] = "planet"
    /\ LET key == planetKeys[idx[c]]
       IN  planets' = [planets EXCEPT ![c][key] =
                          IF key \in failing THEN ErrorEntry ELSE PlanetEntry(EphLon(key))]
    /\ IF idx[c] < Len(planetKeys)
       THEN /\ idx' = [idx EXCEPT ![c] = idx[c] + 1]
            /\ reqMode' = [reqMode EXCEPT ![c][planetKeys[idx[c] + 1]] = sidMode]
            /\ pc' = pc
       ELSE /\ idx' = idx
            /\ reqMode' = [reqMode EXCEPT ![c]["node"] = sidMode]
            /\ pc' = [pc EXCEPT ![c] = "node"]
    /\ UNCHANGED <<sidMode, failing, opts, housesObj, chart, angleVars, proxyVars>>

\* The awaited calcPlanet of the node settles: rahu and ketu are recorded
\* together, and the houses are requested.
NodeDone(c) ==
    /\ pc[c] = "node"
    /\ IF "node" \in failing
       THEN planets' = [planets EXCEPT ![c]["rahu"] = ErrorEntry,
                                       ![c]["ketu"] = ErrorEntry]
       ELSE LET rahuLon == norm360(EphLon("node"))
                ketuLon == norm360(JsAdd(rahuLon, 180))
            IN  planets' = [planets EXCEPT ![c]["rahu"] = NodeEntry(rahuLon),
                                           ![c]["ketu"] = NodeEntry(ketuLon)]
    /\ reqMode' = [reqMode EXCEPT ![c]["houses"] = sidMode]
    /\ pc' = [pc EXCEPT ![c] = "houses"]
    /\ UNCHANGED <<sidMode, failing, opts, idx, housesObj, chart, angleVars, proxyVars>>

\* The awaited calcHouses settles: housesObj is the result or { error }, the
\* cusps and ascmc lists are mapped to sign objects, and the chart is returned.
HousesDone(c) ==
    /\ pc[c] = "houses"
    /\ \E res \in HouseSamples :
       LET h == IF "houses" \in failing
                THEN [kind |-> "error", cusps |-> << >>, ascmc |-> << >>]
                ELSE [kind |-> "ok", cusps |-> res.cusps, ascmc |-> res.ascmc]
           cusps == MapToSignObjects(h.cusps)
           ascmc == MapToSignObjects(h.ascmc)
       IN  /\ housesObj' = [housesObj EXCEPT ![c] = h]
           /\ chart' = [chart EXCEPT ![c] =
                          [built     |-> TRUE,
                           ascendant |-> ElementOrNull(ascmc, 1),
                           midheaven |-> ElementOrNull(ascmc, 2),
                           cusps     |-> cusps]]
    /\ pc' = [pc EXCEPT ![c] = "returned"]
    /\ UNCHANGED <<sidMode, failing, opts, idx, planets, reqMode, angleVars, proxyVars>>

NextChart ==
    \E c \in Calls : Begin(c) \/ PlanetDone(c) \/ NodeDone(c) \/ HousesDone(c)

SpecChart == InitChart /\ [][NextChart]_vars

InitAngle ==
    /\ ChartIdle
    /\ ProxyIdle
    /\ degX \in Inputs
    /\ degY \in {y \in Inputs : TurnsApart(degX, y)}
    /\ normX = None
    /\ normY = None
    /\ objX = NoObject
    /\ objY = NoObject

CallNorm360 ==
    /\ normX = None
    /\ normX' = norm360(degX)
    /\ normY' = norm360(degY)
    /\ UNCHANGED <<degX, degY, objX, objY, chartVars, proxyVars>>

CallDegToSignObject ==
    /\ objX = NoObject
    /\ objX' = degToSignObject(degX)
    /\ objY' = degToSignObject(degY)
    /\ UNCHANGED <<degX, degY, normX, normY, chartVars, proxyVars>>

NextAngle == CallNorm360 \/ CallDegToSignObject

SpecAngle == InitAngle /\ [][NextAngle]_vars

\* ------------------------------------------------------ the proxy handler
\* A field of the parsed body: absent (undefined or null), present but falsy
\* (0 or ''), or present with a truthy value.
FieldValues == {"absent", "falsy", "value"}

\* event.body: text JSON.parse rejects, no body (parsed as '{}'), the text
\* null, or an object with the required fields as given.
EventBodies ==
    {[kind |-> k, fields |-> [f \in Required |-> "absent"]] : k \in {"invalid", "empty", "null"}}
    \cup {[kind |-> "object", fields |-> fs] : fs \in [Required -> FieldValues]}

Methods == {"POST", "GET"}

\* What the geocoder's body parses to: null, an empty array, an array whose
\* first element is a result or is null, or an object that is not an array.
GeoBodies == {"null", "empty", "results", "nullElement", "object"}

InitProxy ==
    /\ AngleIdle
    /\ ChartIdle
    /\ event \in [httpMethod : Methods, body : EventBodies]
    /\ apiKey \in BOOLEAN
    /\ hpc = "start"
    /\ trace = << >>
    /\ geoJson = "none"
    /\ providerOk = "none"
    /\ responses = << >>

\* return { statusCode: status, ... }
Return(status) ==
    /\ responses' = Append(responses, status)
    /\ hpc' = "done"

\* catch (err) { return { statusCode: 500, ... } }: every exception thrown in
\* the handler's body ends here.
Catch == Return(500)

\* !year || !month || !date || hours == null || minutes == null || !place
MissingFields(fields) ==
    \/ fields["year"] # "value"
    \/ fields["month"] # "value"
    \/ fields["date"] # "value"
    \/ fields["hours"] = "absent"
    \/ fields["minutes"] = "absent"
    \/ fields["place"] # "value"

\* The handler up to its first await: the method check, JSON.parse of the
\* body, the destructuring, the field check and the geocoding request.
Invoke ==
    /\ hpc = "start"
    /\ IF event.httpMethod # "POST"
       THEN Return(405) /\ trace' = trace
       ELSE IF event.body.kind \in {"invalid", "null"}
       THEN Catch /\ trace' = trace
       ELSE IF MissingFields(event.body.fields)
       THEN Return(400) /\ trace' = trace
       ELSE /\ trace' = Append(trace, "geocode")
            /\ hpc' = "awaitGeo"
            /\ UNCHANGED responses
    /\ UNCHANGED <<event, apiKey, geoJson, providerOk, angleVars, chartVars>>

\* await fetch(nomUrl, ...) settles.
GeoFetchSettled ==
    /\ hpc = "awaitGeo"
    /\ \E rejected \in BOOLEAN :
          IF rejected THEN Catch
          ELSE hpc' = "awaitGeoJson" /\ UNCHANGED responses
    /\ UNCHANGED <<event, apiKey, trace, geoJson, providerOk, angleVars, chartVars>>

\* Variant of GeoJsonSettled without the FREE_ASTRO_API_KEY check.
GeoJsonSettled_NoKeyCheck ==
    /\ hpc = "awaitGeoJson"
    /\ \E rejected \in BOOLEAN, g \in GeoBodies :
          IF rejected THEN Catch /\ UNCHANGED <<geoJson, trace>>
          ELSE /\ geoJson' = g
               /\ IF g \in {"null", "empty"} THEN Return(400) /\ trace' = trace
                  ELSE IF g \in {"nullElement", "object"} THEN Catch /\ trace' = trace
                  ELSE /\ trace' = Append(trace, "provider")
                       /\ hpc' = "awaitProvider"
                       /\ UNCHANGED responses
    /\ UNCHANGED <<event, apiKey, providerOk, angleVars, chartVars>>

\* await geoResp.json() settles; then the result check, parseFloat of the
\* first result's lat and lon (a TypeError when there is no first element to
\* read them from), the API key check and the provider request.
GeoJsonSettled ==
    /\ hpc = "awaitGeoJson"
    /\ \E rejected \in BOOLEAN, g \in GeoBodies :
          IF rejected THEN Catch /\ UNCHANGED <<geoJson, trace>>
          ELSE /\ geoJson' = g
               /\ IF g \in {"null", "empty"} THEN Return(400) /\ trace' = trace
                  ELSE IF g \in {"nullElement", "object"} THEN Catch /\ trace' = trace
                  ELSE IF ~apiKey THEN Return(500) /\ trace' = trace
                  ELSE /\ trace' = Append(trace, "provider")
                       /\ hpc' = "awaitProvider"
                       /\ UNCHANGED responses
    /\ UNCHANGED <<event, apiKey, providerOk, angleVars, chartVars>>

\* await fetch(apiUrl, ...) settles; resp.ok decides which body is read.
ProviderSettled ==
    /\ hpc = "awaitProvider"
    /\ \E o \in {"rejected", "ok", "notok"} :
          IF o = "rejected" THEN Catch /\ providerOk' = providerOk
          ELSE /\ providerOk' = o
               /\ hpc' = IF o = "ok" THEN "awaitJson" ELSE "awaitText"
               /\ UNCHANGED responses
    /\ UNCHANGED <<event, apiKey, trace, geoJson, angleVars, chartVars>>

\* await resp.text() settles (the provider did not answer OK).
TextSettled ==
    /\ hpc = "awaitText"
    /\ \E rejected \in BOOLEAN : IF rejected THEN Catch ELSE Return(502)
    /\ UNCHANGED <<event, apiKey, trace, geoJson, providerOk, angleVars, chartVars>>

\* await resp.json() settles (the provider answered OK).
JsonSettled ==
    /\ hpc = "awaitJson"
    /\ \E rejected \in BOOLEAN : IF rejected THEN Catch ELSE Return(200)
    /\ UNCHANGED <<event, apiKey, trace, geoJson, providerOk, angleVars, chartVars>>

NextProxy ==
    \/ Invoke
    \/ GeoFetchSettled
    \/ GeoJsonSettled
    \/ ProviderSettled
    \/ TextSettled
    \/ JsonSettled

SpecProxy == InitProxy /\ [][NextProxy]_vars

\* ------------------------------------------------------------ whole model
Init == InitAngle \/ InitChart \/ InitProxy

Next == NextAngle \/ NextChart \/ NextProxy

Spec == Init /\ [][Next]_vars

\* ------------------------------------------------- properties of the helpers
Whole(n) == n.v \div Unit
IsWhole(n) == IsFinite(n) /\ n.v % Unit = 0

\* C1: for every finite input, norm360 returns r with 0 <= r < 360; 360 itself
\* is never returned.
C1_NormalizeInRange ==
    (IsFinite(degX) /\ normX # None) =>
        (IsFinite(normX) /\ 0 <= normX.v /\ normX.v < 360 * Unit)

C3_SignIndexAndName ==
    (IsFinite(degX) /\ objX # NoObject) =>
        /\ IsWhole(objX.sign)
        /\ Whole(objX.sign) = objX.longitude.v \div (30 * Unit) + 1
        /\ Whole(objX.sign) \in 1..12
        /\ objX.signName # "null"
        /\ objX.signName = names[Whole(objX.sign)]

DegMinInRange(o) ==
    /\ IsWhole(o.deg) /\ Whole(o.deg) \in 0..29
    /\ IsWhole(o.min) /\ Whole(o.min) \in 0..59
    /\ IsFinite(o.sec) /\ 0 <= o.sec.v

\* C4 as stated: deg in 0..29, min in 0..59 and the rounded seconds strictly
\* below 60.
C4_SecondsBelow60 ==
    (IsFinite(degX) /\ objX # NoObject) =>
        (DegMinInRange(objX) /\ objX.sec.v < 6000)

\* C4 as amended: deg in 0..29, min in 0..59 and the rounded seconds in the
\* closed range [0, 60]: seconds of 59.995 or more round to 60.00 and are not
\* carried into the minutes.
C4_SecondsAtMost60 ==
    (IsFinite(degX) /\ objX # NoObject) =>
        (DegMinInRange(objX) /\ objX.sec.v <= 6000)

\* C4 witness: a finite input whose seconds round to 60.00.
C4_Witness ==
    /\ IsFinite(degX)
    /\ objX # NoObject
    /\ objX.sec = Fin(6000)
    /\ Whole(objX.deg) = 25
    /\ Whole(objX.min) = 1

\* deg, min and sec of o put together, in hundredths of an arc second.
Recombined(o) == Whole(o.deg) * 360000 + Whole(o.min) * 6000 + o.sec.v

\* floor of r (fine units, 0 <= r < 30 degrees) in hundredths of an arc second.
CentiArcsec(r) ==
    LET w == r \div Unit
        f == r % Unit
        q == (f * 3600) \div Unit
        p == (f * 3600) % Unit
    IN  w * 360000 + q * 100 + (p * 100) \div Unit

\* 0.01 degree in hundredths of an arc second.
Tolerance == 36 * 100

\* C5: for every finite input, deg + min/60 + sec/3600 is within 0.01 degree of
\* longitude mod 30, and (sign - 1) * 30 plus that sum is within 0.01 degree of
\* the returned longitude.
C5_Reconstruction ==
    (IsFinite(degX) /\ objX # NoObject) =>
        LET n    == objX.longitude.v
            act  == CentiArcsec(n % (30 * Unit))
            rec  == Recombined(objX)
            off  == (Whole(objX.sign) - 1 - n \div (30 * Unit)) * 30 * 360000
        IN  /\ rec - act <= Tolerance
            /\ act + 1 - rec <= Tolerance
            /\ off + rec - act <= Tolerance
            /\ act + 1 - rec - off <= Tolerance

\* C5 witness: a finite input in the middle of a sign with minutes and seconds.
C5_Witness ==
    /\ IsFinite(degX)
    /\ objX # NoObject
    /\ Whole(objX.deg) = 25
    /\ Whole(objX.min) > 0
    /\ objX.sec.v > 0
    /\ objX.sec.v < 6000

\* C6: a non-finite input makes norm360 and degToSignObject fail; no NaN
\* longitude, NaN sign or null signName is ever returned for it.
C6_NonFiniteRejected ==
    ~IsFinite(degX) =>
        /\ normX.k # "nan"
        /\ objX.longitude.k # "nan"
        /\ objX.sign.k # "nan"
        /\ objX.signName # "null"

\* ------------------------------------------------ properties of computeChart
\* The entry is the sign breakdown of longitude lon (a value in [0, 360)).
IsBreakdownOf(entry, lon) ==
    /\ entry.kind = "ok"
    /\ entry.obj.longitude = lon
    /\ IsWhole(entry.obj.sign)
    /\ Whole(entry.obj.sign) = lon.v \div (30 * Unit) + 1
    /\ entry.obj.signName = names[Whole(entry.obj.sign)]

\* The longitude 180 degrees from lon, in [0, 360).
Opposite(lon) == Fin((lon.v + 180 * Unit) % (360 * Unit))

ExpectedAt(list, i) == IF i <= Len(list) THEN degToSignObject(list[i]) ELSE JsNull

\* C8: every longitude a successful houses call returned (each cusp, the
\* ascendant, the midheaven) is in the chart as its sign breakdown, a value of
\* exactly 0 degrees included; an entry is null only where no value was
\* supplied.
C8_HousesMapped ==
    \A c \in Calls :
        (pc[c] = "returned" /\ housesObj[c].kind = "ok") =>
            /\ Len(chart[c].cusps) = Len(housesObj[c].cusps)
            /\ \A i \in 1..Len(housesObj[c].cusps) :
                  chart[c].cusps[i] = degToSignObject(housesObj[c].cusps[i])
            /\ chart[c].ascendant = ExpectedAt(housesObj[c].ascmc, 1)
            /\ chart[c].midheaven = ExpectedAt(housesObj[c].ascmc, 2)

\* C10: every ephemeris request of a call is made while the process-wide
\* sidereal mode is the mode that call's own options selected.
C10_RequestsUnderOwnMode ==
    \A c \in Calls : \A b \in Bodies :
        reqMode[c][b] # "none" => reqMode[c][b] = OwnMode(opts[c])

\* --------------------------------------------- properties of the proxy handler
InTrace(req) == \E i \in 1..Len(trace) : trace[i] = req

\* C9: the handler's checks and outbound requests happen in a fixed order.
\* The geocoding request is issued only for a POST whose body holds every
\* required field; the provider request only after the geocoding request,
\* when the geocoder returned at least one result and FREE_ASTRO_API_KEY is
\* set; a 200 is returned only after the provider answered OK; at most one
\* response is returned, with status 200, 400, 405, 500 or 502; and the
\* invocation is finished exactly when that response has been returned (a
\* thrown exception included), being able to take a step until then.
C9_HandlerOrder ==
    /\ InTrace("geocode") =>
          /\ event.httpMethod = "POST"
          /\ event.body.kind = "object"
          /\ \A f \in Required : event.body.fields[f] # "absent"
          /\ trace[1] = "geocode"
    /\ InTrace("provider") =>
          /\ trace = <<"geocode", "provider">>
          /\ geoJson = "results"
          /\ apiKey
    /\ Len(trace) <= 2
    /\ (\E i \in 1..Len(responses) : responses[i] = 200) =>
          (providerOk = "ok" /\ InTrace("provider"))
    /\ Len(responses) <= 1
    /\ \A i \in 1..Len(responses) : responses[i] \in {200, 400, 405, 500, 502}
    /\ (hpc = "done") <=> (Len(responses) = 1)
    /\ hpc \notin {"done", "off"} => ENABLED NextProxy

\* C9 witness: an invocation went through both outbound requests and
\* returned 200.
C9_Witness ==
    /\ hpc = "done"
    /\ trace = <<"geocode", "provider">>
    /\ responses = <<200>>
    /\ event.body.fields["hours"] = "falsy"

=============================================================================
